---- MODULE Spec2Model ----
(***************************************************************************)
(* Model of src/index.js (the later of the two copies of the server in the *)
(* file, lines 180-517): the in-memory session registry, the Twilio media  *)
(* stream handler, the OpenAI Realtime client it opens, handleCallEnd and  *)
(* the periodic sweep.  Every event handler of the program is one action:  *)
(* Node runs a handler to completion before the next event is delivered.   *)
(* A ws socket keeps emitting messages after close() was called on it,     *)
(* until its close event; send() on a socket that is not OPEN writes       *)
(* nothing, and throws while the socket is CONNECTING; an exception that   *)
(* leaves a handler ends the process.  Times are in minutes.  Session ids   *)
(* are issued in order and never reused, so a session record is written    *)
(* as its id.                                                              *)
(***************************************************************************)
EXTENDS Integers, Sequences, FiniteSets, TLC

(* ---- bounds of the model: sessions created, telephony connections, AI *)
(* sockets opened, and inbound events handled in one behaviour ---- *)
NumSessions == 2
NumConns == 2
MaxAi == 2
MaxInputs == 7

(* timers of the program, in minutes *)
GRACE == 5
MAX_AGE == 120
SWEEP_INTERVAL == 30

(* `null` / `undefined` of the program *)
Null == 0

Sessions == 1..NumSessions
Conns == 1..NumConns
AiIds == 1..MaxAi
(* an id that names no session (uuidv4 never issues it) *)
UnknownId == NumSessions + 1
(* start payload k carries streamSid MZk and callSid CAk; the streams of *)
(* connection c are numbered 2c-1 and 2c                                *)
StartIds == 1..(2 * NumConns)

VARIABLES
  configured,   \* SUPABASE_URL && SUPABASE_ANON_KEY
  alive,        \* the process runs: no exception has escaped a handler
  issued,       \* number of session ids issued by POST /session
  registry,     \* keys of the sessions Map
  callId,       \* session.callId present
  transcript,   \* session.transcript
  ended,        \* session._ended
  endCount,     \* times handleCallEnd passed its guard for the session
  reports,      \* results reports POSTed for the session
  awaiting,     \* fetches of handleCallEnd not yet settled
  appenders,    \* connections whose AI leg pushed to the transcript
  tState,       \* twilioWs: "idle", "open", "closing", "closed"
  sessionId,    \* let sessionId
  session,      \* let session (the record it refers to)
  streamSid,    \* let streamSid
  callSid,      \* let callSid
  openaiWs,     \* let openaiWs (the AI socket it refers to)
  openaiReady,  \* let openaiReady
  started,      \* start events that passed the session check
  frames,       \* media events received: was the AI leg ready at arrival
  toOpenAI,     \* messages sent on the AI sockets of the connection
  toTwilio,     \* messages handed to twilioWs.send
  speechCount,  \* speech_started events handled
  aiState,      \* AI socket: "none", "connecting", "open", "closing", "closed"
  aiOwner,      \* the connection whose connectOpenAI created the socket
  aiCreated,    \* session.created received on the socket
  now,          \* Date.now(), in minutes
  createdAt,    \* session.createdAt
  timer,        \* deadline of the setTimeout of handleCallEnd, or Null
  nextSweep,    \* next firing of the setInterval sweep
  inputs        \* inbound events handled so far (bounds the exploration)

vars == <<configured, alive, issued, registry, callId, transcript, ended,
          endCount, reports, awaiting, appenders, tState, sessionId,
          session, streamSid,
          callSid, openaiWs, openaiReady, started, frames, toOpenAI, toTwilio,
          speechCount, aiState, aiOwner, aiCreated, now, createdAt, timer,
          nextSweep, inputs>>

procVars == <<configured, alive>>
sessionVars == <<issued, registry, callId, transcript, ended, endCount,
                 reports, awaiting, appenders, createdAt, timer>>
connVars == <<tState, sessionId, session, streamSid, callSid, openaiWs,
              openaiReady, started, frames, toOpenAI, toTwilio, speechCount>>
aiVars == <<aiState, aiOwner, aiCreated>>
clockVars == <<now, nextSweep>>

Init ==
  /\ configured \in BOOLEAN
  /\ alive = TRUE
  /\ issued = 0
  /\ registry = {}
  /\ callId = [s \in Sessions |-> FALSE]
  /\ transcript = [s \in Sessions |-> <<>>]
  /\ ended = [s \in Sessions |-> FALSE]
  /\ endCount = [s \in Sessions |-> 0]
  /\ reports = [s \in Sessions |-> <<>>]
  /\ awaiting = [s \in Sessions |-> 0]
  /\ appenders = [s \in Sessions |-> {}]
  /\ tState = [c \in Conns |-> "idle"]
  /\ sessionId = [c \in Conns |-> Null]
  /\ session = [c \in Conns |-> Null]
  /\ streamSid = [c \in Conns |-> Null]
  /\ callSid = [c \in Conns |-> Null]
  /\ openaiWs = [c \in Conns |-> Null]
  /\ openaiReady = [c \in Conns |-> FALSE]
  /\ started = [c \in Conns |-> 0]
  /\ frames = [c \in Conns |-> <<>>]
  /\ toOpenAI = [c \in Conns |-> <<>>]
  /\ toTwilio = [c \in Conns |-> <<>>]
  /\ speechCount = [c \in Conns |-> 0]
  /\ aiState = [a \in AiIds |-> "none"]
  /\ aiOwner = [a \in AiIds |-> Null]
  /\ aiCreated = [a \in AiIds |-> FALSE]
  /\ now = 0
  /\ createdAt = [s \in Sessions |-> 0]
  /\ timer = [s \in Sessions |-> Null]
  /\ nextSweep = SWEEP_INTERVAL
  /\ inputs = 0

(* an inbound event (a request, a socket event, the passing of time) is *)
(* handled while the process runs and the budget of the exploration     *)
(* lasts; what the program does by itself (a timer firing, a fetch      *)
(* settling) is not counted                                             *)
Counted == alive /\ inputs < MaxInputs /\ inputs' = inputs + 1

(* a step of the program itself *)
Uncounted == alive /\ UNCHANGED inputs

(* sessions.get(id): the record, or undefined *)
SessionsGet(id) == IF id \in registry THEN id ELSE Null

(* app.post("/session") *)
CreateSession(hasCallId) ==
  /\ Counted
  /\ issued < NumSessions
  /\ issued' = issued + 1
  /\ registry' = registry \cup {issued + 1}
  /\ callId' = [callId EXCEPT ![issued + 1] = hasCallId]
  /\ createdAt' = [createdAt EXCEPT ![issued + 1] = now]
  /\ UNCHANGED <<procVars, transcript, ended, endCount, reports, awaiting,
                 appenders, timer>>
  /\ UNCHANGED <<connVars, aiVars, clockVars>>

(* faulty variant: the guard forgets session._ended *)
CallEndProceedsUnguarded(s) == s /= Null

(* the guard of handleCallEnd: `if (!session || session._ended) return` *)
CallEndProceeds(s) == s /= Null /\ ~ended[s]

(* the report is POSTed: SUPABASE_URL && SUPABASE_ANON_KEY && session.callId *)
ReportWanted(s) == configured /\ callId[s]

(* the body of the POST, without its duration: the callId of session s is *)
(* written s                                                             *)
ReportBody(s, csid) ==
  [callId |-> s, callSid |-> csid, transcript |-> transcript[s],
   endedReason |-> "call_ended"]

(* handleCallEnd(sessionId, callSid) up to its first await (or to its end) *)
HandleCallEnd(id, csid) ==
  LET s == SessionsGet(id) IN
  IF CallEndProceeds(s)
  THEN /\ ended' = [ended EXCEPT ![s] = TRUE]
       /\ endCount' = [endCount EXCEPT ![s] = @ + 1]
       /\ IF ReportWanted(s)
          THEN /\ reports' = [reports EXCEPT ![s] = Append(@, ReportBody(s, csid))]
               /\ awaiting' = [awaiting EXCEPT ![s] = @ + 1]
               /\ UNCHANGED timer
          ELSE /\ timer' = [timer EXCEPT ![s] = now + GRACE]
               /\ UNCHANGED <<reports, awaiting>>
  ELSE UNCHANGED <<ended, endCount, reports, awaiting, timer>>

(* the fetch resolves with resp.ok, resolves with a failure status, or *)
(* rejects                                                             *)
FetchOutcomes == {"ok", "status", "rejected"}

(* faulty variant: the deletion is scheduled inside the try block, after *)
(* the response was found ok                                             *)
DeletionScheduledOnSuccess(outcome) == outcome = "ok"

(* the setTimeout follows the try/catch: it runs after every outcome *)
DeletionScheduled(outcome) == TRUE

(* the fetch settles: the rest of handleCallEnd runs.  No outcome calls *)
(* fetch again or touches session._ended                               *)
FetchSettled(s, outcome) ==
  /\ Counted
  /\ awaiting[s] > 0
  /\ awaiting' = [awaiting EXCEPT ![s] = @ - 1]
  /\ IF DeletionScheduled(outcome)
     THEN timer' = [timer EXCEPT ![s] = now + GRACE]
     ELSE UNCHANGED timer
  /\ UNCHANGED <<procVars, issued, registry, callId, transcript, ended,
                 endCount, reports, appenders, createdAt>>
  /\ UNCHANGED <<connVars, aiVars, clockVars>>

(* faulty variant: the deletion does not wait for the delay *)
GraceTimerEarly(s) ==
  /\ Uncounted
  /\ timer[s] /= Null
  /\ registry' = registry \ {s}
  /\ timer' = [timer EXCEPT ![s] = Null]
  /\ UNCHANGED <<procVars, issued, callId, transcript, ended, endCount,
                 reports, awaiting, appenders, createdAt>>
  /\ UNCHANGED <<connVars, aiVars, clockVars>>

(* setTimeout(() => sessions.delete(sessionId), 5 * 60 * 1000) fires *)
GraceTimer(s) ==
  /\ Uncounted
  /\ timer[s] /= Null
  /\ timer[s] <= now
  /\ registry' = registry \ {s}
  /\ timer' = [timer EXCEPT ![s] = Null]
  /\ UNCHANGED <<procVars, issued, callId, transcript, ended, endCount,
                 reports, awaiting, appenders, createdAt>>
  /\ UNCHANGED <<connVars, aiVars, clockVars>>

(* faulty variant: the sweep compares with >= *)
TooOldInclusive(s) == now - createdAt[s] >= MAX_AGE

(* faulty variant: the sweep lets a session live one interval longer *)
TooOldLate(s) == now - createdAt[s] > MAX_AGE + SWEEP_INTERVAL

(* the sweep deletes a session: now - session.createdAt > 2h *)
TooOld(s) == now - createdAt[s] > MAX_AGE

(* the setInterval callback *)
Sweep ==
  /\ Uncounted
  /\ now = nextSweep
  /\ registry' = {s \in registry : ~TooOld(s)}
  /\ nextSweep' = now + SWEEP_INTERVAL
  /\ UNCHANGED <<procVars, issued, callId, transcript, ended, endCount,
                 reports, awaiting, appenders, createdAt, timer, now>>
  /\ UNCHANGED <<connVars, aiVars>>

(* the deadlines of the pending timers *)
Deadlines == {nextSweep} \cup {timer[s] : s \in {x \in Sessions : timer[x] /= Null}}

(* the first firing of the sweep that finds session s too old *)
ExpiryTick(s) ==
  LET x == createdAt[s] + MAX_AGE - nextSweep IN
  IF x < 0 THEN nextSweep
  ELSE nextSweep + ((x \div SWEEP_INTERVAL) + 1) * SWEEP_INTERVAL

(* time passes, with no other event, up to d: the next deadline, or the  *)
(* first sweep that finds a session too old (the sweeps that fire on the *)
(* way delete nothing). A timer that is due fires before time moves on.  *)
(* Over an empty registry with no timer armed the passing of time only   *)
(* moves the origin of time, and is left out                             *)
Advance(d) ==
  /\ Counted
  /\ registry /= {} \/ \E s \in Sessions : timer[s] /= Null
  /\ \A e \in Deadlines : now < e
  /\ \/ \A e \in Deadlines : d <= e
     \/ \E s \in registry : d = ExpiryTick(s)
  /\ \A s \in Sessions : timer[s] /= Null => d <= timer[s]
  /\ \A s \in registry : d <= ExpiryTick(s)
  /\ now' = d
  /\ nextSweep' = IF d > nextSweep THEN d ELSE nextSweep
  /\ UNCHANGED procVars
  /\ UNCHANGED <<sessionVars, connVars, aiVars>>

(* ---- the telephony connection: wss.on("connection") ---- *)

(* the sessionId a peer can put in the URL: none, or an id that POST      *)
(* /session has issued (an id of a session since deleted names no session) *)
UrlIds == {Null} \cup (1..issued)

(* the sessionId a start event can carry in customParameters: none, an id *)
(* that POST /session has issued, or one that names no session            *)
CustomIds == {Null, UnknownId} \cup (1..issued)

Connection(c, urlId) ==
  /\ Counted
  /\ tState[c] = "idle"
  /\ \A d \in Conns : d < c => tState[d] /= "idle"
  /\ tState' = [tState EXCEPT ![c] = "open"]
  /\ sessionId' = [sessionId EXCEPT ![c] = urlId]
  /\ session' = [session EXCEPT ![c] =
                    IF urlId /= Null THEN SessionsGet(urlId) ELSE Null]
  /\ UNCHANGED <<streamSid, callSid, openaiWs, openaiReady, started, frames,
                 toOpenAI, toTwilio, speechCount>>
  /\ UNCHANGED <<procVars, sessionVars, aiVars, clockVars>>

(* twilioWs still delivers messages: ws emits them until the close event, *)
(* also after twilioWs.close() was called                                 *)
Receiving(c) == tState[c] \in {"open", "closing"}

(* twilioWs.close(): the closing handshake starts *)
AfterClose(st) == IF st = "open" THEN "closing" ELSE st

(* the session id the start event binds: `if (!session &&                *)
(* data.start.customParameters?.sessionId)` takes the custom parameter   *)
StartSessionId(c, custom) ==
  IF session[c] = Null /\ custom /= Null THEN custom ELSE sessionId[c]

StartSession(c, custom) ==
  IF session[c] = Null /\ custom /= Null THEN SessionsGet(custom) ELSE session[c]

(* faulty variant: the start handler connects without checking the session *)
StartAcceptedUnchecked(ses) == TRUE

(* `if (!session) { twilioWs.close(); return; }` is not taken *)
StartAccepted(ses) == ses /= Null

(* the socket `new WebSocket(wsUrl, ...)` of the next connectOpenAI *)
FreshAi == Cardinality({a \in AiIds : aiState[a] /= "none"}) + 1

(* the stream id of the next start event on c: a stream id is not reused *)
NextStartIds(c) == IF streamSid[c] = 2 * c - 1 THEN {2 * c} ELSE {2 * c - 1}

(* the callId a POST /session may carry; without a results collector the *)
(* program never reads it                                                *)
CallIdChoices == IF configured THEN BOOLEAN ELSE {FALSE}

(* case "start" for a payload with data.start.streamSid = k and *)
(* data.start.callSid = csid (Null: the field is missing)       *)
StartEvent(c, k, csid, custom) ==
  /\ Counted
  /\ Receiving(c)
  /\ LET ses == StartSession(c, custom) IN
     /\ streamSid' = [streamSid EXCEPT ![c] = k]
     /\ callSid' = [callSid EXCEPT ![c] = csid]
     /\ sessionId' = [sessionId EXCEPT ![c] = StartSessionId(c, custom)]
     /\ session' = [session EXCEPT ![c] = ses]
     /\ IF StartAccepted(ses)
        THEN /\ FreshAi \in AiIds
             /\ aiState' = [aiState EXCEPT ![FreshAi] = "connecting"]
             /\ aiOwner' = [aiOwner EXCEPT ![FreshAi] = c]
             /\ openaiWs' = [openaiWs EXCEPT ![c] = FreshAi]
             /\ started' = [started EXCEPT ![c] =
                               IF ses /= Null THEN @ + 1 ELSE @]
             /\ UNCHANGED <<tState, aiCreated>>
        ELSE /\ tState' = [tState EXCEPT ![c] = AfterClose(@)]
             /\ UNCHANGED <<aiVars, openaiWs, started>>
  /\ UNCHANGED <<openaiReady, frames, toOpenAI, toTwilio, speechCount>>
  /\ UNCHANGED <<procVars, sessionVars, clockVars>>

(* case "start", the payload Twilio sends *)
TwilioStart(c, k, custom) == StartEvent(c, k, k, custom)

(* case "start", a payload whose start object has a streamSid only: *)
(* nothing throws, so the catch block does not drop it              *)
TwilioStartPartial(c, k) == StartEvent(c, k, Null, Null)

(* case "connected", an event with no case, or a message whose handling *)
(* throws into the catch block before it has changed anything: one that *)
(* does not parse, a start without a start object, a media without a    *)
(* media object                                                         *)
TwilioOther(c) ==
  /\ alive
  /\ Receiving(c)
  /\ UNCHANGED vars

(* faulty variant: the media handler forgets the readiness flag *)
MediaForwardedUnflagged(c) ==
  openaiWs[c] /= Null /\ aiState[openaiWs[c]] = "open"

(* `openaiReady && openaiWs?.readyState === WebSocket.OPEN` *)
MediaForwarded(c) ==
  openaiReady[c] /\ openaiWs[c] /= Null /\ aiState[openaiWs[c]] = "open"

(* socket.send(msg) on an AI socket: sent when the socket is OPEN; it   *)
(* throws while CONNECTING and is dropped once CLOSING                   *)
AiSend(c, a, msg) ==
  IF a /= Null /\ aiState[a] = "open"
  THEN Append(toOpenAI[c], [ws |-> a, type |-> msg[1], body |-> msg[2]])
  ELSE toOpenAI[c]

(* case "media": the n-th frame of the connection carries payload n *)
TwilioMedia(c) ==
  /\ Counted
  /\ Receiving(c)
  /\ frames' = [frames EXCEPT ![c] =
        Append(@, openaiReady[c] /\ openaiWs[c] /= Null
                    /\ aiState[openaiWs[c]] = "open")]
  /\ toOpenAI' = [toOpenAI EXCEPT ![c] =
        IF MediaForwarded(c)
        THEN AiSend(c, openaiWs[c], <<"input_audio_buffer.append", Len(frames[c]) + 1>>)
        ELSE @]
  /\ UNCHANGED <<tState, sessionId, session, streamSid, callSid, openaiWs,
                 openaiReady, started, toTwilio, speechCount>>
  /\ UNCHANGED <<procVars, sessionVars, aiVars, clockVars>>

(* case "stop" *)
TwilioStop(c) ==
  /\ Counted
  /\ Receiving(c)
  /\ HandleCallEnd(sessionId[c], callSid[c])
  /\ UNCHANGED <<issued, registry, callId, transcript, appenders, createdAt>>
  /\ UNCHANGED <<procVars, connVars, aiVars, clockVars>>

(* twilioWs.on("close") closes the AI socket: `openaiWs?.readyState === OPEN` *)
CloseReachesAi(c, a) == a = openaiWs[c] /\ aiState[a] = "open"

(* twilioWs.on("close") *)
TwilioClose(c) ==
  /\ Counted
  /\ Receiving(c)
  /\ tState' = [tState EXCEPT ![c] = "closed"]
  /\ aiState' = [a \in AiIds |->
        IF CloseReachesAi(c, a) THEN "closing" ELSE aiState[a]]
  /\ HandleCallEnd(sessionId[c], callSid[c])
  /\ UNCHANGED <<issued, registry, callId, transcript, appenders, createdAt>>
  /\ UNCHANGED <<sessionId, session, streamSid, callSid, openaiWs,
                 openaiReady, started, frames, toOpenAI, toTwilio, speechCount>>
  /\ UNCHANGED <<procVars, aiOwner, aiCreated, clockVars>>

(* ---- the AI connection: the handlers connectOpenAI installs ---- *)

(* faulty variant: the open handler marks the leg ready without configuring it *)
AiOpenUnconfigured(a) ==
  /\ Counted
  /\ aiState[a] = "connecting"
  /\ aiState' = [aiState EXCEPT ![a] = "open"]
  /\ openaiReady' = [openaiReady EXCEPT ![aiOwner[a]] = TRUE]
  /\ UNCHANGED <<tState, sessionId, session, streamSid, callSid, openaiWs,
                 started, frames, toOpenAI, toTwilio, speechCount>>
  /\ UNCHANGED <<procVars, sessionVars, aiOwner, aiCreated, clockVars>>

(* openaiWs.send of the open handler of socket a: `openaiWs` is the *)
(* variable of the connection, the socket of its latest start; ws    *)
(* throws when that socket is still CONNECTING                       *)
OpenSendThrows(a) ==
  LET w == openaiWs[aiOwner[a]] IN w /= a /\ aiState[w] = "connecting"

(* ... writes the message when that socket is OPEN, and drops it otherwise *)
OpenSendWritten(a) ==
  LET w == openaiWs[aiOwner[a]] IN w = a \/ aiState[w] = "open"

(* openaiWs.on("open"): the configuration message carries session.prompt; *)
(* the prompt of session s is written s.  The handler has no try block:   *)
(* an exception of send leaves it and ends the process                    *)
AiOpen(a) ==
  /\ Counted
  /\ aiState[a] = "connecting"
  /\ LET c == aiOwner[a] IN
     IF OpenSendThrows(a)
     THEN /\ alive' = FALSE
          /\ UNCHANGED <<aiState, toOpenAI, openaiReady>>
     ELSE /\ aiState' = [aiState EXCEPT ![a] = "open"]
          /\ toOpenAI' = [toOpenAI EXCEPT ![c] =
                IF OpenSendWritten(a)
                THEN Append(@, [ws |-> openaiWs[c], type |-> "session.update",
                                body |-> session[c]])
                ELSE @]
          /\ openaiReady' = [openaiReady EXCEPT ![c] = TRUE]
          /\ UNCHANGED alive
  /\ UNCHANGED <<tState, sessionId, session, streamSid, callSid, openaiWs,
                 started, frames, toTwilio, speechCount>>
  /\ UNCHANGED <<configured, sessionVars, aiOwner, aiCreated, clockVars>>

(* the socket still delivers messages: until its close event *)
AiReceiving(a) == aiState[a] \in {"open", "closing"}

(* case "session.created": the response request goes out on `openaiWs` *)
AiSessionCreated(a) ==
  /\ Counted
  /\ AiReceiving(a)
  /\ ~aiCreated[a]
  /\ aiCreated' = [aiCreated EXCEPT ![a] = TRUE]
  /\ LET c == aiOwner[a] IN
     toOpenAI' = [toOpenAI EXCEPT ![c] =
        AiSend(c, openaiWs[c], <<"response.create", Null>>)]
  /\ UNCHANGED <<tState, sessionId, session, streamSid, callSid, openaiWs,
                 openaiReady, started, frames, toTwilio, speechCount>>
  /\ UNCHANGED <<procVars, sessionVars, aiState, aiOwner, clockVars>>

(* twilioWs.send(msg): ws writes it when the socket is OPEN and drops it *)
(* otherwise; `sent` records which                                       *)
TwilioSend(c, event) ==
  Append(toTwilio[c],
         [event |-> event, streamSid |-> streamSid[c], sent |-> tState[c] = "open"])

(* case "response.audio.delta" with a delta: `if (streamSid && event.delta)` *)
DeltaRelayed(c) == streamSid[c] /= Null

AiAudioDelta(a) ==
  /\ Counted
  /\ AiReceiving(a)
  /\ LET c == aiOwner[a] IN
     toTwilio' = [toTwilio EXCEPT ![c] =
        IF DeltaRelayed(c) THEN TwilioSend(c, "media") ELSE @]
  /\ UNCHANGED <<tState, sessionId, session, streamSid, callSid, openaiWs,
                 openaiReady, started, frames, toOpenAI, speechCount>>
  /\ UNCHANGED <<procVars, sessionVars, aiVars, clockVars>>

(* faulty variant: the clear is guarded like the audio delta and skipped once the *)
(* telephony socket is no longer open                                    *)
SpeechClearsGuarded(c) ==
  IF streamSid[c] /= Null /\ tState[c] = "open"
  THEN Append(toTwilio[c],
              [event |-> "clear", streamSid |-> streamSid[c], sent |-> TRUE])
  ELSE toTwilio[c]

(* case "input_audio_buffer.speech_started" *)
SpeechClears(c) == TwilioSend(c, "clear")

AiSpeechStarted(a) ==
  /\ Counted
  /\ AiReceiving(a)
  /\ LET c == aiOwner[a] IN
     /\ toTwilio' = [toTwilio EXCEPT ![c] = SpeechClears(c)]
     /\ speechCount' = [speechCount EXCEPT ![c] = @ + 1]
  /\ UNCHANGED <<tState, sessionId, session, streamSid, callSid, openaiWs,
                 openaiReady, started, frames, toOpenAI>>
  /\ UNCHANGED <<procVars, sessionVars, aiVars, clockVars>>

(* event.transcript: the text that would be entry n of the transcript is *)
(* written n; Null for an event whose transcript is empty or missing     *)
EventTranscript(s, hasText) == IF hasText THEN Len(transcript[s]) + 1 ELSE Null

(* `if (event.transcript)` *)
TranscriptKept(text) == text /= Null

(* faulty variant: the entry is put in front *)
TranscriptUnshift(log, entry) == <<entry>> \o log

(* session.transcript.push(entry) *)
TranscriptPush(log, entry) == Append(log, entry)

(* cases "response.audio_transcript.done" (role "agent") and            *)
(* "conversation.item.input_audio_transcription.completed" (role "user") *)
AiTranscript(a, role, hasText) ==
  /\ Counted
  /\ AiReceiving(a)
  /\ LET c == aiOwner[a]
         s == session[c]
         text == EventTranscript(s, hasText) IN
     /\ IF TranscriptKept(text)
        THEN /\ transcript' = [transcript EXCEPT ![s] =
                   TranscriptPush(@, [role |-> role, text |-> text])]
             /\ appenders' = [appenders EXCEPT ![s] = @ \cup {c}]
        ELSE UNCHANGED <<transcript, appenders>>
  /\ UNCHANGED <<issued, registry, callId, ended, endCount, reports,
                 awaiting, createdAt, timer>>
  /\ UNCHANGED <<procVars, connVars, aiVars, clockVars>>

(* case "error", an event with no case, or a message that does not parse *)
AiOther(a) ==
  /\ alive
  /\ AiReceiving(a)
  /\ UNCHANGED vars

(* openaiWs.on("close"): the handshake failed, the peer closed, or the *)
(* close this side started has completed                               *)
AiClose(a) ==
  /\ Counted
  /\ aiState[a] \in {"connecting", "open", "closing"}
  /\ aiState' = [aiState EXCEPT ![a] = "closed"]
  /\ openaiReady' = [openaiReady EXCEPT ![aiOwner[a]] = FALSE]
  /\ UNCHANGED <<tState, sessionId, session, streamSid, callSid, openaiWs,
                 started, frames, toOpenAI, toTwilio, speechCount>>
  /\ UNCHANGED <<procVars, sessionVars, aiOwner, aiCreated, clockVars>>

Next ==
  \/ \E h \in CallIdChoices : CreateSession(h)
  \/ \E s \in Sessions, o \in FetchOutcomes : FetchSettled(s, o)
  \/ \E s \in Sessions : GraceTimer(s)
  \/ Sweep
  \/ \E d \in Deadlines \cup {ExpiryTick(s) : s \in registry} : Advance(d)
  \/ \E c \in Conns, u \in UrlIds : Connection(c, u)
  \/ \E c \in Conns, u \in CustomIds : \E k \in NextStartIds(c) : TwilioStart(c, k, u)
  \/ \E c \in Conns : \E k \in NextStartIds(c) : TwilioStartPartial(c, k)
  \/ \E c \in Conns : TwilioOther(c)
  \/ \E c \in Conns : TwilioMedia(c)
  \/ \E c \in Conns : TwilioStop(c)
  \/ \E c \in Conns : TwilioClose(c)
  \/ \E a \in AiIds : AiOpen(a)
  \/ \E a \in AiIds : AiSessionCreated(a)
  \/ \E a \in AiIds : AiAudioDelta(a)
  \/ \E a \in AiIds : AiSpeechStarted(a)
  \/ \E a \in AiIds, r \in {"agent", "user"} :
       \E x \in BOOLEAN : AiTranscript(a, r, x)
  \/ \E a \in AiIds : AiOther(a)
  \/ \E a \in AiIds : AiClose(a)

Spec == Init /\ [][Next]_vars


(* ---- the claims ---- *)

AiOf(c) == {a \in AiIds : aiOwner[a] = c}
Indices(log) == 1..Len(log)
Clears(c) == {i \in Indices(toTwilio[c]) : toTwilio[c][i].event = "clear"}
Appends(c) ==
  {i \in Indices(toOpenAI[c]) : toOpenAI[c][i].type = "input_audio_buffer.append"}
Updates(c) ==
  {i \in Indices(toOpenAI[c]) : toOpenAI[c][i].type = "session.update"}

(* the payloads of the audio-append messages sent for c, in sending order *)
AppendedAudio(c) ==
  LET sel == SelectSeq(toOpenAI[c],
                       LAMBDA m : m.type = "input_audio_buffer.append")
  IN [i \in 1..Len(sel) |-> sel[i].body]

(* the frames among the first n of c that arrived while the leg was ready *)
RECURSIVE ReadyFrames(_, _)
ReadyFrames(c, n) ==
  IF n = 0 THEN <<>>
  ELSE IF frames[c][n] THEN Append(ReadyFrames(c, n - 1), n)
       ELSE ReadyFrames(c, n - 1)

(* C1: for every session, handleCallEnd passes its guard at most once: the *)
(* ended flag is set by that one pass and stays set, and at most one       *)
(* results report is issued, whatever stop events, closes of the           *)
(* connections naming the session and sweep ticks occur.                   *)
C1_FinalizeAtMostOnce ==
  \A s \in Sessions :
    /\ endCount[s] <= 1
    /\ ended[s] <=> endCount[s] = 1
    /\ Len(reports[s]) <= 1

(* C1 witness: two connections naming one session have both closed and the *)
(* session was finalized and reported.                                     *)
C1_Witness ==
  \E s \in Sessions : \E c \in Conns, d \in Conns :
    /\ c /= d
    /\ sessionId[c] = s /\ sessionId[d] = s
    /\ tState[c] = "closed" /\ tState[d] = "closed"
    /\ ended[s] /\ Len(reports[s]) = 1

(* C2: a start event whose custom parameter names an existing session binds *)
(* the call to that session, also when the URL parameter named another      *)
(* existing session.                                                        *)
C2_CustomParameterFirst ==
  [][\A c \in Conns, k \in StartIds, u \in Sessions :
       (TwilioStart(c, k, u) /\ u \in registry) =>
          (session'[c] = u /\ sessionId'[c] = u)]_vars

(* C3: once a start event has failed to resolve a session (the handler has *)
(* called twilioWs.close(), the socket is closing), no AI connection is    *)
(* opened for that telephony connection by any later event.                *)
C3_NoAiAfterFailedStart ==
  [][\A c \in Conns :
       tState[c] = "closing" => AiOf(c)' = AiOf(c)]_vars

(* C4: an AI connection exists for a telephony connection only if the      *)
(* connection has processed a start event that resolved to a session that  *)
(* POST /session created; no other event opens one.                        *)
C4_AiOnlyAfterStart ==
  \A a \in AiIds :
    aiState[a] /= "none" =>
      /\ aiOwner[a] \in Conns
      /\ started[aiOwner[a]] >= 1
      /\ session[aiOwner[a]] \in 1..issued

(* C4 witness: a connection with an AI leg has also handled media and      *)
(* stop events.                                                            *)
C4_Witness ==
  \E a \in AiIds :
    /\ aiState[a] = "open"
    /\ frames[aiOwner[a]] /= <<>>
    /\ ended[session[aiOwner[a]]]

(* C5: the audio-append messages sent are exactly the frames that arrived  *)
(* while the AI leg was ready (flag set and socket open), in arrival       *)
(* order; a frame that arrived otherwise is never sent.                    *)
C5_ForwardedFramesAreReadyFrames ==
  \A c \in Conns : AppendedAudio(c) = ReadyFrames(c, Len(frames[c]))

(* C5 witness: a frame was dropped before the leg was ready and a later    *)
(* one was forwarded.                                                      *)
C5_Witness ==
  \E c \in Conns :
    /\ Len(frames[c]) >= 2
    /\ ~frames[c][1] /\ frames[c][2]
    /\ AppendedAudio(c) = <<2>>

(* C6 as claimed: the readiness flag is set only after session.created was *)
(* received, and no audio-append is sent on a socket before it.            *)
C6_ReadyOnlyAfterCreated ==
  \A c \in Conns :
    /\ openaiReady[c] => \E a \in AiOf(c) : aiCreated[a]
    /\ \A i \in Appends(c) : aiCreated[toOpenAI[c][i].ws]

(* C6 amended: the readiness flag is true only while an AI socket of the   *)
(* connection whose open handler has run is not yet closed, and every      *)
(* audio-append on a socket follows the configuration message of that      *)
(* socket.                                                                 *)
C6_ReadyOnlyAfterConfigured ==
  \A c \in Conns :
    /\ openaiReady[c] => \E a \in AiOf(c) : aiState[a] \in {"open", "closing"}
    /\ \A i \in Appends(c) :
         \E j \in Updates(c) : j < i /\ toOpenAI[c][j].ws = toOpenAI[c][i].ws

(* C6 witness: a frame was forwarded on a socket that has not received     *)
(* session.created.                                                        *)
C6_Witness ==
  \E c \in Conns :
    /\ openaiReady[c]
    /\ \E i \in Appends(c) : ~aiCreated[toOpenAI[c][i].ws]

(* C7: in every state the clear commands handed to the telephony socket    *)
(* are as many as the speech_started events handled (so each event's clear *)
(* is sent before any later event is relayed), each tagged with a stream   *)
(* id of the connection's own start events, and written to the socket      *)
(* whenever the socket is open.                                            *)
C7_OneClearPerSpeechStarted ==
  \A c \in Conns :
    /\ Cardinality(Clears(c)) = speechCount[c]
    /\ \A i \in Clears(c) : toTwilio[c][i].streamSid \in {2 * c - 1, 2 * c}
    /\ \A i \in Indices(toTwilio[c]) :
         (tState[c] = "open" => toTwilio[c][i].sent)

(* C7 witness: a clear was sent and an audio frame was relayed after it.   *)
C7_Witness ==
  \E c \in Conns :
    /\ speechCount[c] = 1
    /\ Len(toTwilio[c]) = 2
    /\ toTwilio[c][1].event = "clear"
    /\ toTwilio[c][2].event = "media"

(* C8: once the telephony connection has closed, none of the AI sockets    *)
(* opened for it is open.                                                  *)
C8_AiTornDownOnClose ==
  \A a \in AiIds :
    (aiOwner[a] /= Null /\ tState[aiOwner[a]] = "closed") => aiState[a] /= "open"

(* C9: a telephony connection has at most one AI socket that is connecting *)
(* or open.                                                                *)
C9_OneAiPerConnection ==
  \A c \in Conns :
    Cardinality({a \in AiOf(c) : aiState[a] \in {"connecting", "open"}}) <= 1

(* C10: two telephony connections that are open and bound to the same      *)
(* session do not both hold an AI leg for it, and have not both appended   *)
(* to its transcript.                                                      *)
C10_OnePairingPerSession ==
  \A c \in Conns, d \in Conns :
    (/\ c /= d
     /\ tState[c] = "open" /\ tState[d] = "open"
     /\ session[c] /= Null /\ session[c] = session[d]) =>
       /\ ~(/\ \E a \in AiOf(c) : aiState[a] \in {"connecting", "open"}
            /\ \E a \in AiOf(d) : aiState[a] \in {"connecting", "open"})
       /\ ~({c, d} \subseteq appenders[session[c]])

(* the messages sent on AI socket a, in order *)
SentOn(a) ==
  LET log == toOpenAI[aiOwner[a]] IN
  {i \in Indices(log) : log[i].ws = a}

(* the runtime state of telephony connection c *)
Runtime(c) ==
  <<streamSid[c], callSid[c], sessionId[c], session[c], openaiWs[c],
    openaiReady[c]>>

(* C11 as claimed, for a session that was not finalized before: a stop     *)
(* event handled on a started connection whose session carries a callId,   *)
(* with the collector configured, leaves exactly one report for the        *)
(* session, carrying the session's callId, the callSid of the connection's *)
(* start event and the end reason call_ended; a close of the connection    *)
(* adds no report to one already issued.                                   *)
C11_StopReportsOnce ==
  [][\A c \in Conns :
       /\ (TwilioStop(c) /\ started[c] >= 1 /\ ReportWanted(session[c])
             /\ ~ended[session[c]]) =>
            LET log == reports'[session[c]] IN
            /\ Len(log) = 1
            /\ log[1].callId = session[c]
            /\ log[1].callSid = callSid[c]
            /\ log[1].endedReason = "call_ended"
       /\ (TwilioClose(c) /\ session[c] /= Null
             /\ reports[session[c]] /= <<>>) =>
            reports'[session[c]] = reports[session[c]]]_vars

(* C12: a session leaves the registry only in a step in which its grace    *)
(* timer, armed for a finalized session, is due, or in a sweep tick that   *)
(* finds its age above the maximum; a session that is neither ended nor    *)
(* older than the maximum age stays; and the first deletion is final: a    *)
(* deleted session is not in the registry again.                           *)
C12_DeletedOnlyByTimerOrSweep ==
  [][\A s \in Sessions :
       /\ (s \in registry /\ s \notin registry') =>
            \/ ended[s] /\ timer[s] /= Null /\ timer[s] <= now
            \/ now = nextSweep /\ now - createdAt[s] > MAX_AGE
       /\ (s \in registry /\ ~ended[s] /\ now - createdAt[s] <= MAX_AGE) =>
            s \in registry'
       /\ (s <= issued /\ s \notin registry) => s \notin registry']_vars

(* C12 witness: the sweep removed a finalized session while its grace      *)
(* timer was still pending.                                                *)
C12_Witness ==
  \E s \in Sessions :
    s <= issued /\ s \notin registry /\ ended[s] /\ timer[s] /= Null

(* C13: a session that is in the registry was not older than the maximum   *)
(* age at the latest sweep tick: the first tick that finds a session too   *)
(* old removes it, finalized or not, started or not.                       *)
C13_SweptOnceTooOld ==
  \A s \in registry : (nextSweep - SWEEP_INTERVAL) - createdAt[s] <= MAX_AGE

(* C13 witness: a session that no connection was ever bound to and that    *)
(* was never finalized has been removed.                                   *)
C13_Witness ==
  \E s \in Sessions :
    /\ s <= issued /\ s \notin registry
    /\ ~ended[s]
    /\ \A c \in Conns : session[c] /= s
    /\ now - createdAt[s] > MAX_AGE

(* C14 as claimed: a finalized session leaves the registry only when its   *)
(* grace timer is due.                                                     *)
C14_FinalizedLeavesByTimerOnly ==
  [][\A s \in Sessions :
       (ended[s] /\ s \in registry /\ s \notin registry') =>
         timer[s] /= Null /\ timer[s] <= now]_vars

(* C14 amended: the grace timer of a session is armed only once the        *)
(* session is finalized, for GRACE minutes from the arming; until it is    *)
(* due a finalized session stays in the registry unless a sweep tick finds *)
(* it older than the maximum age; and once removed it is never in the      *)
(* registry again.                                                         *)
C14_FinalizedKeptForGrace ==
  [][\A s \in Sessions :
       /\ (timer'[s] /= timer[s] /\ timer'[s] /= Null) =>
            ended'[s] /\ timer'[s] = now + GRACE
       /\ (/\ ended[s] /\ s \in registry
           /\ timer[s] = Null \/ timer[s] > now
           /\ ~(now = nextSweep /\ now - createdAt[s] > MAX_AGE)) =>
            s \in registry'
       /\ (ended[s] /\ s \notin registry) => s \notin registry']_vars

(* C14 witness: a finalized session was removed by its grace timer.        *)
C14_Witness ==
  \E s \in Sessions :
    /\ ended[s] /\ s \notin registry
    /\ timer[s] = Null
    /\ now - createdAt[s] <= MAX_AGE

(* C15 as claimed: every transcript-completed event appends one entry of   *)
(* its role at the end of the session's transcript.                        *)
C15_EveryEventAppends ==
  [][\A a \in AiIds, r \in {"agent", "user"}, h \in BOOLEAN :
       AiTranscript(a, r, h) =>
         LET s == session[aiOwner[a]] IN
         transcript'[s] =
           Append(transcript[s], [role |-> r, text |-> Len(transcript[s]) + 1])]_vars

(* C15 amended: a step changes a transcript only by appending one entry at *)
(* its end; a transcript-completed event with a non-empty transcript       *)
(* appends one entry of its role there, and one with an empty or missing   *)
(* transcript appends nothing.                                             *)
C15_AppendOnly ==
  [][/\ \A s \in Sessions :
          \/ transcript'[s] = transcript[s]
          \/ \E r \in {"agent", "user"} :
               transcript'[s] =
                 Append(transcript[s],
                        [role |-> r, text |-> Len(transcript[s]) + 1])
     /\ \A a \in AiIds, r \in {"agent", "user"}, h \in BOOLEAN :
          AiTranscript(a, r, h) =>
            LET s == session[aiOwner[a]] IN
            transcript'[s] =
              IF h THEN Append(transcript[s],
                               [role |-> r, text |-> Len(transcript[s]) + 1])
              ELSE transcript[s]]_vars

(* C15 witness: an agent entry and then a user entry were appended.        *)
C15_Witness ==
  \E s \in Sessions :
    transcript[s] = <<[role |-> "agent", text |-> 1], [role |-> "user", text |-> 2]>>

(* C16 as claimed, for a connection bound to a session: a malformed        *)
(* message (one the handler drops in its catch block, or a start whose     *)
(* start object lacks the callSid) closes no connection, finalizes no      *)
(* session, and leaves the runtime state of the connection unchanged.      *)
C16_MalformedDropped ==
  [][\A c \in Conns :
       (/\ session[c] /= Null
        /\ \/ TwilioOther(c)
           \/ \E k \in StartIds : TwilioStartPartial(c, k)
           \/ \E a \in AiOf(c) : AiOther(a)) =>
         /\ tState' = tState
         /\ aiState' = aiState
         /\ ended' = ended
         /\ Runtime(c)' = Runtime(c)]_vars

(* C17 as claimed: the close of an AI socket leaves the telephony          *)
(* connection and the session as they are; and while the telephony         *)
(* connection lives after an AI socket of it has closed, the readiness     *)
(* flag is false, no audio is forwarded and no AI socket is created.       *)
C17_AiFailureEndsAudio ==
  [][\A a \in AiIds :
       LET c == aiOwner[a] IN
       /\ (aiState[a] /= "closed" /\ aiState'[a] = "closed") =>
            /\ tState'[c] = tState[c]
            /\ ended' = ended
            /\ ~openaiReady'[c]
       /\ (aiState[a] = "closed" /\ Receiving(c) /\ tState'[c] = tState[c]) =>
            /\ ~openaiReady'[c]
            /\ Appends(c)' = Appends(c)
            /\ AiOf(c)' = AiOf(c)]_vars

C19_ConfiguredFirstAndOnce ==
  \A a \in AiIds :
    aiState[a] = "open" =>
      LET c == aiOwner[a]
          log == toOpenAI[c] IN
      /\ SentOn(a) /= {}
      /\ \A i \in SentOn(a) :
           (\A j \in SentOn(a) : i <= j) =>
             log[i].type = "session.update" /\ log[i].body = session[c]
      /\ Cardinality({i \in SentOn(a) : log[i].type = "session.update"}) = 1

(* C20 as claimed: the transcript of a finalized session does not change,  *)
(* and a report carries the whole transcript of its session.               *)
C20_TranscriptFrozenAtFinalize ==
  [][\A s \in Sessions :
       /\ ended[s] => transcript'[s] = transcript[s]
       /\ \A i \in Indices(reports'[s]) :
            reports'[s][i].transcript = transcript'[s]]_vars

====
